---- MODULE Spec2Model ----
(***************************************************************************)
(* Gmail push-notification relay (appler1009/mailreader-server).           *)
(*                                                                         *)
(* The model covers the notification dispatch core of the Lambda function: *)
(* handleGmailNotification with parseGmailMessage, getUserDevices,         *)
(* getAPNSPrivateKey, generateAPNSToken and sendAPNSNotification, in the   *)
(* two handler variants of the repository:                                 *)
(*   "FunctionURL"  src/index.js          (key from Secrets Manager,       *)
(*                                         cached; base64 payload)         *)
(*   "ALB"          src/unnamed/part_003  (key from the environment;       *)
(*                                         plain JSON payload)             *)
(* One process (one Lambda instance) handles one notification invocation   *)
(* at a time; the registration store is shared with other instances, so    *)
(* registrations change at any moment.                                     *)
(***************************************************************************)
EXTENDS Integers, Sequences, FiniteSets, TLC

(***************************************************************************)
(* Bounds of the model.                                                    *)
(***************************************************************************)
MaxDevices == 2
MaxInvocations == 2
MaxTicks == 3
MaxLookups == 1
MaxLag == 1

(***************************************************************************)
(* Values.                                                                 *)
(***************************************************************************)
Undefined == "undefined"
Emails == {"a@x.com", "b@x.com"}
DeviceTokens == 1..MaxDevices
HistoryIds == {"9"}

\* Readings of the clock, as new Date().toISOString() renders them.
Timestamps == {"2026-01-01T00:00:00.000Z"}

\* The registrations that /device requests ask for: any device under the
\* first mailbox, and the first device under the second one as well.
Registrations ==
    { <<"a@x.com", t>> : t \in DeviceTokens } \cup { <<"b@x.com", 1>> }

NoKey == "null"
ValidKey == "p8-key"
MalformedKey == "malformed-key"
Keys == {ValidKey, MalformedKey}

APNS_PRODUCTION == "api.push.apple.com"
APNS_SANDBOX == "api.sandbox.apple.com"

Variants == {"FunctionURL", "ALB"}
Environments == {"prod", "dev"}

(***************************************************************************)
(* Event bodies.  A text is either the JSON serialisation of an object     *)
(* with the fields emailAddress, email and historyId (Undefined when the   *)
(* field is absent) or a text that is not JSON.  A data string is either   *)
(* the base64 encoding of a text or the text itself; a message without a   *)
(* data field has enc = "absent".                                          *)
(***************************************************************************)
JunkText == [json |-> FALSE, emailAddress |-> Undefined, email |-> Undefined,
             historyId |-> Undefined]

JsonTexts ==
    { [json |-> TRUE, emailAddress |-> "a@x.com", email |-> Undefined,
       historyId |-> h] : h \in HistoryIds }
    \cup { [json |-> TRUE, emailAddress |-> Undefined, email |-> "b@x.com",
            historyId |-> h] : h \in HistoryIds }
    \cup { [json |-> TRUE, emailAddress |-> Undefined, email |-> Undefined,
            historyId |-> h] : h \in HistoryIds }

Texts == JsonTexts \cup {JunkText}

NoData == [enc |-> "absent", text |-> JunkText]

\* "b64": the base64 encoding of text; "plain": text itself; "b64+": the
\* base64 encoding of text with characters outside the base64 alphabet in it.
DataStrings ==
    { [enc |-> c, text |-> t] : c \in {"b64", "plain"}, t \in Texts }
    \cup { [enc |-> "b64+",
            text |-> [json |-> TRUE, emailAddress |-> "a@x.com",
                      email |-> Undefined, historyId |-> h]] : h \in HistoryIds }

NoMessage == [present |-> FALSE, data |-> NoData]

\* event.body: absent, not JSON, or a JSON object with optional message / data
EventBodies ==
    { [kind |-> "none", message |-> NoMessage, data |-> NoData],
      [kind |-> "badjson", message |-> NoMessage, data |-> NoData],
      [kind |-> "object", message |-> NoMessage, data |-> NoData],
      [kind |-> "object", message |-> [present |-> TRUE, data |-> NoData],
       data |-> NoData] }
    \cup { [kind |-> "object", message |-> [present |-> TRUE, data |-> d],
            data |-> NoData] : d \in DataStrings }
    \cup { [kind |-> "object", message |-> NoMessage, data |-> d] :
            d \in DataStrings }

(***************************************************************************)
(* The event handed to exports.handler.  form says where its routing       *)
(* fields are: "http" in event.requestContext.http (method, path), "alb"   *)
(* in event.httpMethod and event.path.  body is event.body as the device   *)
(* handler reads it: absent, not JSON, or a JSON object whose email and    *)
(* deviceToken are present or not ("" an empty email, 0 a token that is    *)
(* missing or empty).                                                      *)
(***************************************************************************)
Forms == {"http", "alb"}
Methods == {"POST", "DELETE", "GET"}
Paths == {"/device", "/gmail-notification", "/other"}

NoDeviceBody == [kind |-> "none", email |-> Undefined, deviceToken |-> 0]

DeviceBodies ==
    { NoDeviceBody,
      [kind |-> "badjson", email |-> Undefined, deviceToken |-> 0],
      [kind |-> "object", email |-> "a@x.com", deviceToken |-> 1],
      [kind |-> "object", email |-> "a@x.com", deviceToken |-> 2],
      [kind |-> "object", email |-> "a@x.com", deviceToken |-> 0],
      [kind |-> "object", email |-> Undefined, deviceToken |-> 1],
      [kind |-> "object", email |-> "", deviceToken |-> 1] }

Requests ==
    { [form |-> f, method |-> m, path |-> "/device", body |-> b] :
        f \in Forms, m \in Methods, b \in DeviceBodies }
    \cup { [form |-> f, method |-> m, path |-> p, body |-> NoDeviceBody] :
             f \in Forms, m \in Methods, p \in Paths \ {"/device"} }

NoRequest == [form |-> "", method |-> "", path |-> "", body |-> NoDeviceBody]

(***************************************************************************)
(* Gateway and provider answers.                                           *)
(***************************************************************************)
NoResponse == [kind |-> "none", statusCode |-> 0, data |-> ""]

GatewayResponses ==
    { [kind |-> "end", statusCode |-> 200, data |-> ""],
      [kind |-> "end", statusCode |-> 204, data |-> ""],
      [kind |-> "end", statusCode |-> 410, data |-> "Unregistered"],
      [kind |-> "error", statusCode |-> 0, data |-> "ECONNRESET"] }

SecretResponses ==
    { [ok |-> TRUE, SecretString |-> k] : k \in Keys }
    \cup { [ok |-> FALSE, SecretString |-> NoKey] }

StoreErrors == {"DynamoDB Error"}

NoReason == [kind |-> "none", code |-> 0, text |-> ""]

\* The answers of DynamoDB to a put or a delete.
WriteOk == [ok |-> TRUE, code |-> "", message |-> ""]

WriteErrors ==
    { [ok |-> FALSE, code |-> "InternalServerError", message |-> e] :
        e \in StoreErrors }

\* The answer to a put whose ConditionExpression names :email and
\* :deviceToken while the request carries no ExpressionAttributeValues.
ValidationException ==
    [ok |-> FALSE, code |-> "ValidationException",
     message |-> "Invalid ConditionExpression: An expression attribute value used in expression is not defined; attribute value: :email"]

(***************************************************************************)
(* State.                                                                  *)
(***************************************************************************)
VARIABLES
    variant,              \* which handler variant this process runs
    environment,          \* process.env.ENVIRONMENT
    APNS_PRIVATE_KEY,     \* process.env.APNS_PRIVATE_KEY (ALB variant)
    store,                \* the DynamoDB table: set of <<email, deviceToken>>
    apnsPrivateKeyCache,  \* module-level cache of the signing key
    invocations,          \* invocations of the handler started so far
    phase,                \* position of the running handleGmailNotification
    event,                \* event.body of the running invocation
    email,                \* identity decoded by parseGmailMessage
    notification,         \* notification built by parseGmailMessage
    lookup,               \* outcome of the getUserDevices call
    devices,              \* result.Items of the lookup
    promises,             \* one sendAPNSNotification promise per device
    response,             \* the response returned by the handler
    request,              \* the event the running invocation was entered with
    clock,                \* Date.now(), in milliseconds
    uuidsIssued,          \* how many values uuidv4() has returned
    calls,                \* the sendAPNSNotification calls of one batch, step by step
    attributes,           \* registeredAt / lastActive of the items this process has put
    replica,              \* the table as an eventually consistent read finds it
    batch                 \* one Promise.allSettled with the order its promises settle in

vars == <<variant, environment, APNS_PRIVATE_KEY, store, apnsPrivateKeyCache,
          invocations, phase, event, email, notification, lookup, devices,
          promises, response, request, clock, uuidsIssued, calls,
          attributes, replica, batch>>

\* The handler's state, and the state of the calls followed step by step.
handlerVars == <<variant, environment, APNS_PRIVATE_KEY, store, apnsPrivateKeyCache,
                 invocations, phase, event, email, notification, lookup, devices,
                 promises, response, request, attributes>>

detailVars == <<clock, uuidsIssued, calls>>

\* The state followed in the specifications of the table and of the summary.
sideVars == <<replica, batch>>

config == <<variant, environment, APNS_PRIVATE_KEY>>

(***************************************************************************)
(* parseGmailMessage.                                                      *)
(***************************************************************************)
TypeErrorText == "The first argument must be of type string"
SyntaxErrorText == "Unexpected token in JSON"

\* Buffer.from(data, 'base64').toString('utf-8'): characters outside the
\* base64 alphabet are skipped, so base64 text with such characters in it
\* decodes as if they were not there, and text that is not base64 at all
\* decodes to bytes that are not JSON.
Base64Decode(data) ==
    IF data.enc \in {"b64", "b64+"} THEN data.text ELSE JunkText

\* The text handed to JSON.parse: index.js decodes base64 first, the ALB
\* variant parses message.data as it is.
DecodedData(v, data) ==
    IF v = "FunctionURL" THEN Base64Decode(data)
    ELSE IF data.enc = "plain" THEN data.text ELSE JunkText

NoNotification ==
    [alert |-> [title |-> "", body |-> ""],
     gmailData |-> [email |-> Undefined, historyId |-> Undefined,
                    timestamp |-> Undefined],
     badge |-> 0, sound |-> "", category |-> ""]

BuildNotification(id, historyId, now) ==
    [alert |-> [title |-> "New Gmail Message",
                body |-> "You have a new email in your inbox"],
     gmailData |-> [email |-> id, historyId |-> historyId, timestamp |-> now],
     badge |-> 1, sound |-> "default", category |-> "GMAIL_NOTIFICATION"]

\* A catch block that logs the parse error and returns what it has.
parseGmailMessageSwallow(v, message, now) ==
    LET data == DecodedData(v, message.data)
        id == IF data.emailAddress # Undefined THEN data.emailAddress
              ELSE data.email
    IN [ok |-> TRUE, error |-> <<>>, email |-> id,
        notification |-> BuildNotification(id, data.historyId, now)]

parseGmailMessage(v, message, now) ==
    IF v = "FunctionURL" /\ message.data.enc = "absent"
    THEN [ok |-> FALSE,
          error |-> <<"Failed to parse Gmail message: ", TypeErrorText>>,
          email |-> Undefined, notification |-> NoNotification]
    ELSE
      LET data == DecodedData(v, message.data) IN
      IF ~data.json
      THEN [ok |-> FALSE,
            error |-> <<"Failed to parse Gmail message: ", SyntaxErrorText>>,
            email |-> Undefined, notification |-> NoNotification]
      ELSE
        LET id == IF data.emailAddress # Undefined THEN data.emailAddress
                  ELSE data.email
        IN [ok |-> TRUE, error |-> <<>>, email |-> id,
            notification |-> BuildNotification(id, data.historyId, now)]

\* pubsubMessage = message.message || message: no check of the shape.
DecodeNoShapeCheck(v, body, now) ==
    IF body.kind = "none"
    THEN [ok |-> FALSE, error |-> <<"No message body in Gmail notification event">>,
          email |-> Undefined, notification |-> NoNotification]
    ELSE IF body.kind = "badjson"
    THEN [ok |-> FALSE, error |-> <<SyntaxErrorText>>,
          email |-> Undefined, notification |-> NoNotification]
    ELSE IF body.message.present
    THEN parseGmailMessage(v, body.message, now)
    ELSE parseGmailMessage(v, body, now)

\* Only the push-wrapper shape is taken; a direct envelope is refused.
DecodeWrappedOnly(v, body, now) ==
    IF body.kind = "none"
    THEN [ok |-> FALSE, error |-> <<"No message body in Gmail notification event">>,
          email |-> Undefined, notification |-> NoNotification]
    ELSE IF body.kind = "badjson"
    THEN [ok |-> FALSE, error |-> <<SyntaxErrorText>>,
          email |-> Undefined, notification |-> NoNotification]
    ELSE IF body.message.present
    THEN parseGmailMessage(v, body.message, now)
    ELSE [ok |-> FALSE, error |-> <<"Invalid Pub/Sub message format">>,
          email |-> Undefined, notification |-> NoNotification]

\* The part of handleGmailNotification before the device lookup: body
\* check, JSON.parse, envelope shape, parseGmailMessage.
Decode(v, body, now) ==
    IF body.kind = "none"
    THEN [ok |-> FALSE, error |-> <<"No message body in Gmail notification event">>,
          email |-> Undefined, notification |-> NoNotification]
    ELSE IF body.kind = "badjson"
    THEN [ok |-> FALSE, error |-> <<SyntaxErrorText>>,
          email |-> Undefined, notification |-> NoNotification]
    ELSE IF body.message.present
    THEN parseGmailMessage(v, body.message, now)
    ELSE IF body.data.enc # "absent"
    THEN parseGmailMessage(v, body, now)
    ELSE [ok |-> FALSE, error |-> <<"Invalid Pub/Sub message format">>,
          email |-> Undefined, notification |-> NoNotification]

(***************************************************************************)
(* Responses of handleGmailNotification.                                   *)
(***************************************************************************)
NoResponseYet == [statusCode |-> 0, body |-> [none |-> TRUE]]

\* The catch block answering a wrong envelope shape with 400.
ErrorResponseByClass(message) ==
    [statusCode |-> IF message = <<"Invalid Pub/Sub message format">>
                    THEN 400 ELSE 500,
     body |-> [error |-> "Failed to process Gmail notification",
               message |-> message]]

ErrorResponse(message) ==
    [statusCode |-> 500,
     body |-> [error |-> "Failed to process Gmail notification",
               message |-> message]]

NoDevicesResponse ==
    [statusCode |-> 200,
     body |-> [success |-> TRUE, message |-> <<"No devices to notify">>]]

\* A summary that reports a batch with failed deliveries as an error.
SummaryResponseStrict(successful, failed) ==
    [statusCode |-> IF failed = 0 THEN 200 ELSE 500,
     body |-> [success |-> failed = 0,
               message |-> <<"Notifications sent to ", ToString(successful),
                             " devices">>,
               failed |-> failed]]

SummaryResponse(successful, failed) ==
    [statusCode |-> 200,
     body |-> [success |-> TRUE,
               message |-> <<"Notifications sent to ", ToString(successful),
                             " devices">>,
               failed |-> failed]]

(***************************************************************************)
(* getUserDevices: the items of the partition `email`, in sort-key order.  *)
(***************************************************************************)
RECURSIVE SortedSeq(_)
SortedSeq(S) ==
    IF S = {} THEN <<>>
    ELSE LET m == CHOOSE x \in S : \A y \in S : x <= y
         IN <<m>> \o SortedSeq(S \ {m})

\* A scan: the items of every mailbox.
getUserDevicesOfAll(table, id) ==
    LET toks == SortedSeq({ t \in DeviceTokens : \E e \in Emails : <<e, t>> \in table })
    IN [i \in 1..Len(toks) |-> [email |-> id, deviceToken |-> toks[i]]]

getUserDevices(table, id) ==
    LET toks == SortedSeq({ t \in DeviceTokens : <<id, t>> \in table })
    IN [i \in 1..Len(toks) |-> [email |-> id, deviceToken |-> toks[i]]]

(***************************************************************************)
(* sendAPNSNotification.  A promise record holds the call's argument       *)
(* (token), its position (state), its getSecretValue call (secret: "none"  *)
(* when it made none, else "pending", "ok" or "failed"), the key it signed *)
(* with, the gateway requests it issued (requests, host, path, body), the  *)
(* gateway's answer (resp) and, once rejected, the reason of the Error.    *)
(* signings counts the tokens the call's generateAPNSToken returned and    *)
(* authorization is the token in the request's authorization header,       *)
(* named by the call that signed it and the key it was signed with.        *)
(***************************************************************************)
NoToken == [signedBy |-> 0, key |-> NoKey]

NoPayload ==
    [aps |-> [alert |-> [title |-> "", body |-> ""], badge |-> 0, sound |-> "",
              category |-> ""],
     gmail |-> [email |-> Undefined, historyId |-> Undefined,
                timestamp |-> Undefined]]

NewPromise(token) ==
    [token |-> token, state |-> "awaitSecret", secret |-> "none", key |-> NoKey,
     requests |-> 0, host |-> "", path |-> 0, body |-> NoPayload,
     signings |-> 0, authorization |-> NoToken,
     resp |-> NoResponse, reason |-> NoReason]

\* A payload that leaves the gmail extras out.
BuildPayloadNoExtras(n) ==
    [aps |-> [alert |-> n.alert,
              badge |-> n.badge,
              sound |-> IF n.sound # "" THEN n.sound ELSE "default",
              category |-> IF n.category # "" THEN n.category
                           ELSE "GMAIL_NOTIFICATION"],
     gmail |-> NoPayload.gmail]

\* The payload object of sendAPNSNotification (x || d: d when x is falsy).
BuildPayload(n) ==
    [aps |-> [alert |-> n.alert,
              badge |-> n.badge,
              sound |-> IF n.sound # "" THEN n.sound ELSE "default",
              category |-> IF n.category # "" THEN n.category
                           ELSE "GMAIL_NOTIFICATION"],
     gmail |-> n.gmailData]

KeyRetrievalFailed ==
    [kind |-> "KeyRetrievalFailed", code |-> 0,
     text |-> "Unable to retrieve APNS private key"]

SigningFailed ==
    [kind |-> "SigningFailed", code |-> 0,
     text |-> "secretOrPrivateKey must be an asymmetric key when using ES256"]

\* A failure reported by resolving the promise instead of rejecting it.
ResolvedAsFailed(p, reason) == [p EXCEPT !.state = "fulfilled", !.reason = reason]

\* reject(new Error(...)), or a throw inside the async function / the
\* promise executor: the call's own promise becomes rejected.
Rejected(p, reason) == [p EXCEPT !.state = "rejected", !.reason = reason]

\* resolve({ success: true, apnsId: ... })
Fulfilled(p) == [p EXCEPT !.state = "fulfilled"]

\* jwt.sign(payload, privateKey, { algorithm: 'ES256' }) throws unless the
\* key is a valid EC private key.
SignOk(key) == key = ValidKey

Host(isProduction) == IF isProduction THEN APNS_PRODUCTION ELSE APNS_SANDBOX

\* A send that goes out although signing failed.
SignAndSendUnsigned(p, key, isProduction, n) ==
    [p EXCEPT !.state = "inflight", !.key = key,
              !.requests = p.requests + 1,
              !.host = Host(isProduction), !.path = p.token,
              !.body = BuildPayload(n)]

\* A send that takes its token from elsewhere instead of signing one.
SignAndSendReusedToken(p, key, isProduction, n) ==
    IF SignOk(key)
    THEN [p EXCEPT !.state = "inflight", !.key = key,
                   !.requests = p.requests + 1,
                   !.host = Host(isProduction), !.path = p.token,
                   !.body = BuildPayload(n),
                   !.authorization = [signedBy |-> 0, key |-> key]]
    ELSE Rejected([p EXCEPT !.key = key], SigningFailed)

\* generateAPNSToken's jwt.sign followed by the https.request of
\* sendAPNSNotification, whose authorization header is `bearer ${token}`
\* with the token this call has just signed.
SignAndSend(p, key, isProduction, n) ==
    IF SignOk(key)
    THEN [p EXCEPT !.state = "inflight", !.key = key,
                   !.signings = p.signings + 1,
                   !.authorization = [signedBy |-> p.token, key |-> key],
                   !.requests = p.requests + 1,
                   !.host = Host(isProduction), !.path = p.token,
                   !.body = BuildPayload(n)]
    ELSE Rejected([p EXCEPT !.key = key], SigningFailed)

\* A getAPNSPrivateKey without the cache check: every call asks the provider.
BeginSendAlwaysFetch(v, cache, envKey, isProduction, n, token) ==
    IF v = "ALB" THEN SignAndSend(NewPromise(token), envKey, FALSE, n)
    ELSE [NewPromise(token) EXCEPT !.secret = "pending"]

\* sendAPNSNotification up to its first suspension.  index.js: the cache
\* check of getAPNSPrivateKey; on a hit the call goes on to sign and send
\* before any I/O event is handled.  ALB variant: the key is the
\* environment's.
BeginSend(v, cache, envKey, isProduction, n, token) ==
    IF v = "ALB" THEN SignAndSend(NewPromise(token), envKey, FALSE, n)
    ELSE IF cache # NoKey
    THEN SignAndSend(NewPromise(token), cache, isProduction, n)
    ELSE [NewPromise(token) EXCEPT !.secret = "pending"]

\* A catch block that stores a placeholder in the cache.
CacheAfterPoisoned(cache, r) == IF r.ok THEN r.SecretString ELSE MalformedKey

\* getAPNSPrivateKey after the provider's answer: the cache is assigned on
\* success and left alone in the catch block.
CacheAfter(cache, r) == IF r.ok THEN r.SecretString ELSE cache

\* A failed retrieval after which the call goes on to the gateway.
OnSecretErrorSendsAnyway(p) ==
    [p EXCEPT !.secret = "failed", !.state = "inflight",
              !.requests = p.requests + 1, !.path = p.token]

\* getAPNSPrivateKey's catch block throws 'Unable to retrieve APNS private
\* key'; the throw passes through generateAPNSToken and sendAPNSNotification
\* and rejects the call's promise before any request is built.
OnSecretError(p) == Rejected([p EXCEPT !.secret = "failed"], KeyRetrievalFailed)

\* A gateway handler that takes every 2xx status for a success.
OnGatewayResponseAny2xx(p, r) ==
    IF r.kind = "error"
    THEN [p EXCEPT !.state = "rejected",
                   !.reason = [kind |-> "transport", code |-> 0, text |-> r.data]]
    ELSE IF r.statusCode \in 200..299
    THEN [p EXCEPT !.state = "fulfilled"]
    ELSE [p EXCEPT !.state = "rejected",
                   !.reason = [kind |-> "status", code |-> r.statusCode,
                               text |-> r.data]]

\* res.on('end') and req.on('error')
OnGatewayResponse(p, r) ==
    IF r.kind = "error"
    THEN Rejected(p, [kind |-> "transport", code |-> 0, text |-> r.data])
    ELSE IF r.statusCode = 200
    THEN Fulfilled(p)
    ELSE Rejected(p, [kind |-> "status", code |-> r.statusCode, text |-> r.data])

\* A rejection that also cancels the deliveries still pending.
SettleFailFast(ps, i, p) ==
    [j \in DOMAIN ps |->
        IF j = i THEN p
        ELSE IF p.state = "rejected" /\ ps[j].state \in {"awaitSecret", "inflight"}
        THEN [ps[j] EXCEPT !.state = "rejected",
                           !.reason = [kind |-> "cancelled", code |-> 0, text |-> ""]]
        ELSE ps[j]]

\* Settling a promise touches that promise only.
\* A fold that depends on the order: a call that settles after another one
\* was rejected is taken as rejected too.
SettleAfterFailureFails(ps, i, p) ==
    [ps EXCEPT ![i] =
        IF \E j \in DOMAIN ps : j # i /\ ps[j].state = "rejected"
        THEN [p EXCEPT !.state = "rejected"]
        ELSE p]

Settle(ps, i, p) == [ps EXCEPT ![i] = p]

(***************************************************************************)
(* The fan-out of handleGmailNotification.                                 *)
(***************************************************************************)
IsProduction(v, env) == v = "FunctionURL" /\ env = "prod"

\* if (!devices): an array is never falsy.
NoDevicesFalsy(items) == FALSE

\* devices.length === 0
NoDevices(items) == Len(items) = 0

\* A loop over the devices that starts at the second one.
StartAllButFirst(v, cache, envKey, isProduction, n, items) ==
    [i \in 1..(Len(items) - 1) |->
        BeginSend(v, cache, envKey, isProduction, n, items[i + 1].deviceToken)]

\* devices.map(device => sendAPNSNotification(device.deviceToken, ...))
\* Starting the calls one after another: only the first is begun.
StartAllOneAtATime(v, cache, envKey, isProduction, n, items) ==
    [i \in 1..Len(items) |->
        IF i = 1
        THEN BeginSend(v, cache, envKey, isProduction, n, items[i].deviceToken)
        ELSE NewPromise(items[i].deviceToken)]

StartAll(v, cache, envKey, isProduction, n, items) ==
    [i \in 1..Len(items) |->
        BeginSend(v, cache, envKey, isProduction, n, items[i].deviceToken)]

Settled(p) == p.state \in {"fulfilled", "rejected"}

\* Promise.all: resolves when all are fulfilled, rejects on the first rejection.
AllFulfilledOrOneRejected(ps) ==
    \/ \A i \in DOMAIN ps : ps[i].state = "fulfilled"
    \/ \E i \in DOMAIN ps : ps[i].state = "rejected"

\* Promise.allSettled resolves
AllSettled(ps) == \A i \in DOMAIN ps : Settled(ps[i])

Successful(ps) == Cardinality({ i \in DOMAIN ps : ps[i].state = "fulfilled" })
\* Counting only the rejections that carry a gateway status.
FailedWithStatus(ps) ==
    Cardinality({ i \in DOMAIN ps :
                    ps[i].state = "rejected" /\ ps[i].reason.kind = "status" })

Failed(ps) == Cardinality({ i \in DOMAIN ps : ps[i].state = "rejected" })

\* getUserDevices' catch swallowing the error as an empty result.
OnLookupErrorSwallowed(err) == NoDevicesResponse

\* getUserDevices rethrows the store's error; the handler's catch answers.
OnLookupError(err) == ErrorResponse(<<err>>)

NoLookup == [state |-> "none", error |-> ""]

(***************************************************************************)
(* exports.handler and handleDeviceRequest.                                *)
(***************************************************************************)
RoutingTypeError == "Cannot read properties of undefined (reading 'http')"

\* The form whose routing fields the variant reads.
FormRead(v) == IF v = "FunctionURL" THEN "http" ELSE "alb"

\* exports.handler: index.js reads event.requestContext.http.method and
\* .path, which throws a TypeError inside the try block when the event has
\* no requestContext; the ALB variant reads event.httpMethod and
\* event.path, undefined when the event has none.
Route(v, req) ==
    IF v = "FunctionURL" /\ req.form # "http" THEN "throw"
    ELSE LET method == IF req.form = FormRead(v) THEN req.method ELSE Undefined
             path == IF req.form = FormRead(v) THEN req.path ELSE Undefined
         IN IF method # Undefined /\ path = "/device" THEN "device"
            ELSE IF method = "POST" /\ path = "/gmail-notification"
            THEN "notification"
            ELSE "invalid"

InvalidRequestResponse ==
    [statusCode |-> 400, body |-> [error |-> "Invalid request format"]]

\* A catch block that lets the error out of the handler.
InternalErrorRethrown(message) ==
    [statusCode |-> 0, body |-> [thrown |-> message]]

\* The catch blocks of handleDeviceRequest and of exports.handler.
InternalError(message) ==
    [statusCode |-> 500,
     body |-> [error |-> "Internal server error", message |-> message]]

FieldsRequiredResponse ==
    [statusCode |-> 400, body |-> [error |-> "Email and deviceToken are required"]]

EndpointNotFoundResponse ==
    [statusCode |-> 404, body |-> [error |-> "Endpoint not found"]]

ResultResponse(message) ==
    [statusCode |-> 200, body |-> [success |-> TRUE, message |-> message]]

\* !email || !deviceToken
FieldMissing(body) == body.email \in {Undefined, ""} \/ body.deviceToken = 0

\* Looking at the method before the body.
handleDeviceRequestMethodFirst(v, req) ==
    IF req.method \notin {"POST", "DELETE"}
    THEN [kind |-> "response", response |-> EndpointNotFoundResponse]
    ELSE IF req.body.kind # "object"
    THEN [kind |-> "response", response |-> InternalError(SyntaxErrorText)]
    ELSE IF FieldMissing(req.body)
    THEN [kind |-> "response", response |-> FieldsRequiredResponse]
    ELSE IF req.method = "POST"
    THEN [kind |-> "put", response |-> NoResponseYet]
    ELSE [kind |-> "delete", response |-> NoResponseYet]

\* handleDeviceRequest up to its return or its first await: JSON.parse of
\* the body, the check of the two fields, then the method.
handleDeviceRequest(v, req) ==
    IF req.body.kind # "object"
    THEN [kind |-> "response", response |-> InternalError(SyntaxErrorText)]
    ELSE IF FieldMissing(req.body)
    THEN [kind |-> "response", response |-> FieldsRequiredResponse]
    ELSE IF req.method = "POST"
    THEN [kind |-> "put", response |-> NoResponseYet]
    ELSE IF req.method = "DELETE"
    THEN [kind |-> "delete", response |-> NoResponseYet]
    ELSE [kind |-> "response", response |-> EndpointNotFoundResponse]

\* The write a pending /device request has issued.
WriteOf(req) == IF req.method = "POST" THEN "put" ELSE "delete"

\* What DynamoDB can answer.  The put of the ALB variant carries a
\* ConditionExpression with placeholders and no ExpressionAttributeValues.
WriteResponses(v, op) ==
    IF v = "ALB" /\ op = "put"
    THEN {ValidationException} \cup WriteErrors
    ELSE {WriteOk} \cup WriteErrors

\* The table after the write was answered.
StoreAfterWrite(table, op, key, r) ==
    IF ~r.ok THEN table
    ELSE IF op = "put" THEN table \cup {key}
    ELSE table \ {key}

\* The attributes of the items after the write was answered.  A put writes
\* the whole item: registeredAt and lastActive are both the reading of the
\* clock taken when registerDevice ran.  Requests are handled one at a
\* time, and the reading is given as the number of the request.
AttributesAfterWrite(attrs, op, key, r, at) ==
    IF ~r.ok THEN attrs
    ELSE IF op = "put"
    THEN [k \in DOMAIN attrs \cup {key} |->
            IF k = key THEN [registeredAt |-> at, lastActive |-> at] ELSE attrs[k]]
    ELSE [k \in DOMAIN attrs \ {key} |-> attrs[k]]

\* registerDevice / unregisterDevice after the answer, and the response
\* handleDeviceRequest builds from their result or their error.
OnWriteResponse(v, op, r) ==
    IF r.ok
    THEN ResultResponse(IF op = "put" THEN "Device registered successfully"
                        ELSE "Device unregistered successfully")
    ELSE IF v = "ALB" /\ op = "put" /\ r.code = "ConditionalCheckFailedException"
    THEN ResultResponse("Device already registered")
    ELSE InternalError(r.message)

NoEvent == [kind |-> "none", message |-> NoMessage, data |-> NoData]

\* No Promise.allSettled is being followed.
NoBatch == [outcomes |-> <<>>, results |-> <<>>, order |-> <<>>,
            summary |-> NoResponseYet]

(***************************************************************************)
(* generateAPNSToken and sendAPNSNotification, statement by statement.     *)
(***************************************************************************)
APNS_TEAM_ID == "team-id"
APNS_KEY_ID == "key-id"

\* The clock advances in steps of half a second.
ClockStep == 500

\* Math.floor(Date.now() / 1000)
Seconds(ms) == ms \div 1000

\* The aud literal: 'apns' in index.js; in the ALB variant the literal is
\* 'apns' followed by the character U+62BC and the digit 1.
Audience(v) == IF v = "FunctionURL" THEN "apns" ELSE "apns<U+62BC>1"

NoJwt == [iss |-> "", kid |-> "", aud |-> "", iat |-> 0, exp |-> 0]

\* jwt.sign(payload, key, {algorithm: 'ES256', header}): the claims of the
\* payload and the kid of the header.
SignedJwt(v, iat, exp) ==
    [iss |-> APNS_TEAM_ID, kid |-> APNS_KEY_ID, aud |-> Audience(v),
     iat |-> iat, exp |-> exp]

\* res.headers['apns-id'] of a response that has no such header, and an
\* identifier that no request of this process carried.
UndefinedHeader == -1
ForeignId == 0

NoResult == [success |-> FALSE, apnsId |-> UndefinedHeader]

NoCall ==
    [pc |-> "start", iat |-> 0, exp |-> 0, token |-> NoJwt, apnsId |-> 0,
     statusCode |-> 0, header |-> UndefinedHeader, result |-> NoResult]

\* uuidv4(): a value no earlier call returned.
uuidv4(issued) == issued + 1

\* A resolution that reports the identifier the request was sent with.
OnEndOwnId(c, statusCode, header) ==
    IF statusCode = 200
    THEN [c EXCEPT !.pc = "resolved", !.statusCode = statusCode,
                   !.header = header,
                   !.result = [success |-> TRUE, apnsId |-> c.apnsId]]
    ELSE [c EXCEPT !.pc = "rejected", !.statusCode = statusCode,
                   !.header = header]

\* res.on('end'): resolve({success: true, apnsId: res.headers['apns-id']})
\* on status 200, reject otherwise.
OnEnd(c, statusCode, header) ==
    IF statusCode = 200
    THEN [c EXCEPT !.pc = "resolved", !.statusCode = statusCode,
                   !.header = header,
                   !.result = [success |-> TRUE, apnsId |-> header]]
    ELSE [c EXCEPT !.pc = "rejected", !.statusCode = statusCode,
                   !.header = header]

\* The positions at which a call is inside a synchronous stretch of code:
\* between the two clock readings in both variants; in the ALB variant,
\* where generateAPNSToken is synchronous, up to the sending of the request.
SyncPositions(v) ==
    IF v = "FunctionURL" THEN {"iat"} ELSE {"iat", "exp", "signed"}

\* Call i may take a step: no other call is inside a synchronous stretch.
MayStep(cs, v, i) ==
    \A j \in DOMAIN cs : j # i => cs[j].pc \notin SyncPositions(v)

(***************************************************************************)
(* Initial state: a fresh process, an empty table.                         *)
(***************************************************************************)
Init ==
    /\ variant \in Variants
    /\ environment \in (IF variant = "FunctionURL" THEN Environments ELSE {"dev"})
    /\ APNS_PRIVATE_KEY \in (IF variant = "ALB" THEN Keys ELSE {NoKey})
    /\ store = {}
    /\ apnsPrivateKeyCache = NoKey
    /\ invocations = 0
    /\ phase = "idle"
    /\ event = NoEvent
    /\ email = Undefined
    /\ notification = NoNotification
    /\ lookup = NoLookup
    /\ devices = <<>>
    /\ promises = <<>>
    /\ response = NoResponseYet
    /\ request = NoRequest
    /\ clock = 0
    /\ uuidsIssued = 0
    /\ calls = <<>>
    /\ attributes = <<>>
    /\ replica = {}
    /\ batch = NoBatch

(***************************************************************************)
(* Registration store, written by /device requests (of any instance).      *)
(***************************************************************************)
\* A put of a pair that is already there, and a delete of one that is not,
\* leave the set of keys as it is: such steps are left out.  The handler
\* reads the table in getUserDevices only, so a write that arrives while a
\* batch is dispatched is taken to arrive when the batch has completed.
registerDevice(e, t) ==
    /\ phase # "dispatched"
    /\ <<e, t>> \notin store
    /\ store' = store \cup {<<e, t>>}
    /\ UNCHANGED <<config, attributes, request, apnsPrivateKeyCache, invocations, phase, event, email,
                   notification, lookup, devices, promises, response>>
    /\ UNCHANGED <<detailVars, sideVars>>

unregisterDevice(e, t) ==
    /\ phase # "dispatched"
    /\ <<e, t>> \in store
    /\ store' = store \ {<<e, t>>}
    /\ UNCHANGED <<config, attributes, request, apnsPrivateKeyCache, invocations, phase, event, email,
                   notification, lookup, devices, promises, response>>
    /\ UNCHANGED <<detailVars, sideVars>>

(***************************************************************************)
(* handleGmailNotification, one action per I/O event.                      *)
(***************************************************************************)
\* The handler is entered with event.body = body while the clock reads
\* now: decoding, then the DynamoDB query is issued.
ReceiveNotification(body, now) ==
    /\ phase \in {"idle", "done", "returned"}
    /\ request' = [form |-> FormRead(variant), method |-> "POST",
                   path |-> "/gmail-notification", body |-> NoDeviceBody]
    /\ invocations < MaxInvocations
    /\ invocations' = invocations + 1
    /\ event' = body
    /\ devices' = <<>>
    /\ promises' = <<>>
    /\ LET d == Decode(variant, body, now) IN
       /\ email' = d.email
       /\ notification' = d.notification
       /\ IF d.ok
          THEN /\ phase' = "lookup"
               /\ lookup' = [state |-> "pending", error |-> ""]
               /\ response' = NoResponseYet
          ELSE /\ phase' = "done"
               /\ lookup' = NoLookup
               /\ response' = ErrorResponse(d.error)
    /\ UNCHANGED <<config, attributes, store, apnsPrivateKeyCache>>
    /\ UNCHANGED <<detailVars, sideVars>>

\* The query fails: the catch block answers.
QueryFailed(err) ==
    /\ phase = "lookup"
    /\ lookup' = [state |-> "error", error |-> err]
    /\ response' = OnLookupError(err)
    /\ phase' = "done"
    /\ UNCHANGED <<config, attributes, request, store, apnsPrivateKeyCache, invocations, event, email,
                   notification, devices, promises>>
    /\ UNCHANGED <<detailVars, sideVars>>

\* The query answers with the items found in table: short-circuit on no
\* devices, otherwise start one delivery per device.
QueryAnswers(table) ==
    /\ phase = "lookup"
    /\ lookup' = [state |-> "ok", error |-> ""]
    /\ LET items == getUserDevices(table, email) IN
       /\ devices' = items
       /\ IF NoDevices(items)
          THEN /\ response' = NoDevicesResponse
               /\ phase' = "done"
               /\ promises' = promises
          ELSE /\ promises' = StartAll(variant, apnsPrivateKeyCache,
                                       APNS_PRIVATE_KEY,
                                       IsProduction(variant, environment),
                                       notification, items)
               /\ phase' = "dispatched"
               /\ response' = response
    /\ UNCHANGED <<config, attributes, request, store, apnsPrivateKeyCache, invocations, event, email,
                   notification>>
    /\ UNCHANGED <<detailVars, sideVars>>

\* The query is answered from the table as it is now.
QuerySucceeded == QueryAnswers(store)

\* Secrets Manager answers the getSecretValue of delivery i.
SecretResponse(i, r) ==
    /\ phase = "dispatched"
    /\ i \in DOMAIN promises
    /\ promises[i].state = "awaitSecret"
    /\ apnsPrivateKeyCache' = CacheAfter(apnsPrivateKeyCache, r)
    /\ IF r.ok
       THEN promises' = Settle(promises, i,
                    SignAndSend([promises[i] EXCEPT !.secret = "ok"],
                                r.SecretString,
                                IsProduction(variant, environment), notification))
       ELSE promises' = Settle(promises, i, OnSecretError(promises[i]))
    /\ UNCHANGED <<config, attributes, request, store, invocations, phase, event, email, notification,
                   lookup, devices, response>>
    /\ UNCHANGED <<detailVars, sideVars>>

\* A handler that drops the registration of a device the gateway reports
\* as gone (410).
GatewayResponsePruning(i, r) ==
    /\ phase = "dispatched"
    /\ i \in DOMAIN promises
    /\ promises[i].state = "inflight"
    /\ promises' = Settle(promises, i,
            OnGatewayResponse([promises[i] EXCEPT !.resp = r], r))
    /\ LET gone == IF r.kind = "end" /\ r.statusCode = 410
                   THEN {<<email, promises[i].token>>} ELSE {}
       IN /\ store' = store \ gone
          /\ attributes' = [k \in DOMAIN attributes \ gone |-> attributes[k]]
    /\ UNCHANGED <<config, request, apnsPrivateKeyCache, invocations, phase, event,
                   email, notification, lookup, devices, response>>
    /\ UNCHANGED <<detailVars, sideVars>>

\* The gateway answers the request of delivery i, or the transport fails.
GatewayResponse(i, r) ==
    /\ phase = "dispatched"
    /\ i \in DOMAIN promises
    /\ promises[i].state = "inflight"
    /\ promises' = Settle(promises, i,
            OnGatewayResponse([promises[i] EXCEPT !.resp = r], r))
    /\ UNCHANGED <<config, attributes, request, store, apnsPrivateKeyCache, invocations, phase, event,
                   email, notification, lookup, devices, response>>
    /\ UNCHANGED <<detailVars, sideVars>>

\* A summary that looks the devices up again: a delivery counts only when
\* its device is still registered.
AggregateRegisteredOnly ==
    /\ phase = "dispatched"
    /\ AllSettled(promises)
    /\ LET still == SelectSeq(promises, LAMBDA q : <<email, q.token>> \in store)
       IN response' = SummaryResponse(Successful(still), Failed(still))
    /\ phase' = "done"
    /\ UNCHANGED <<config, attributes, request, store, apnsPrivateKeyCache, invocations, event, email,
                   notification, lookup, devices, promises>>
    /\ UNCHANGED <<detailVars, sideVars>>

\* Promise.allSettled resolves: the counts and the summary response.
Aggregate ==
    /\ phase = "dispatched"
    /\ AllSettled(promises)
    /\ response' = SummaryResponse(Successful(promises), Failed(promises))
    /\ phase' = "done"
    /\ UNCHANGED <<config, attributes, request, store, apnsPrivateKeyCache, invocations, event, email,
                   notification, lookup, devices, promises>>
    /\ UNCHANGED <<detailVars, sideVars>>

(***************************************************************************)
(* Requests that exports.handler does not hand to handleGmailNotification. *)
(***************************************************************************)
\* A router without its try block: the TypeError leaves the handler.
RejectRequestUncaught(req) ==
    /\ phase \in {"idle", "done", "returned"}
    /\ invocations < MaxInvocations
    /\ invocations' = invocations + 1
    /\ Route(variant, req) \in {"invalid", "throw"}
    /\ request' = req
    /\ response' = IF Route(variant, req) = "throw"
                   THEN InternalErrorRethrown(RoutingTypeError)
                   ELSE InvalidRequestResponse
    /\ phase' = "returned"
    /\ event' = NoEvent
    /\ email' = Undefined
    /\ notification' = NoNotification
    /\ lookup' = NoLookup
    /\ devices' = <<>>
    /\ promises' = <<>>
    /\ UNCHANGED <<config, attributes, store, apnsPrivateKeyCache>>
    /\ UNCHANGED <<detailVars, sideVars>>

\* No handler takes the request, or reading the routing fields throws.
RejectRequest(req) ==
    /\ phase \in {"idle", "done", "returned"}
    /\ invocations < MaxInvocations
    /\ invocations' = invocations + 1
    /\ Route(variant, req) \in {"invalid", "throw"}
    /\ request' = req
    /\ response' = IF Route(variant, req) = "throw"
                   THEN InternalError(RoutingTypeError)
                   ELSE InvalidRequestResponse
    /\ phase' = "returned"
    /\ event' = NoEvent
    /\ email' = Undefined
    /\ notification' = NoNotification
    /\ lookup' = NoLookup
    /\ devices' = <<>>
    /\ promises' = <<>>
    /\ UNCHANGED <<config, attributes, store, apnsPrivateKeyCache>>
    /\ UNCHANGED <<detailVars, sideVars>>

\* handleDeviceRequest is entered: it answers at once or issues its write.
DeviceRequest(req) ==
    /\ phase \in {"idle", "done", "returned"}
    /\ invocations < MaxInvocations
    /\ invocations' = invocations + 1
    /\ Route(variant, req) = "device"
    /\ request' = req
    /\ LET d == handleDeviceRequest(variant, req) IN
       /\ response' = d.response
       /\ phase' = IF d.kind = "response" THEN "returned" ELSE "write"
    /\ event' = NoEvent
    /\ email' = Undefined
    /\ notification' = NoNotification
    /\ lookup' = NoLookup
    /\ devices' = <<>>
    /\ promises' = <<>>
    /\ UNCHANGED <<config, attributes, store, apnsPrivateKeyCache>>
    /\ UNCHANGED <<detailVars, sideVars>>

\* DynamoDB answers the put or the delete.
StoreWriteResponse(r) ==
    /\ phase = "write"
    /\ r \in WriteResponses(variant, WriteOf(request))
    /\ store' = StoreAfterWrite(store, WriteOf(request),
                                <<request.body.email, request.body.deviceToken>>, r)
    /\ attributes' = AttributesAfterWrite(attributes, WriteOf(request),
                                <<request.body.email, request.body.deviceToken>>, r,
                                invocations)
    /\ response' = OnWriteResponse(variant, WriteOf(request), r)
    /\ phase' = "returned"
    /\ UNCHANGED <<config, request, apnsPrivateKeyCache, invocations, event, email,
                   notification, lookup, devices, promises>>
    /\ UNCHANGED <<detailVars, sideVars>>

Next ==
    \/ \E r \in Registrations : registerDevice(r[1], r[2])
    \/ \E r \in Registrations : unregisterDevice(r[1], r[2])
    \/ \E body \in EventBodies, now \in Timestamps : ReceiveNotification(body, now)
    \/ \E err \in StoreErrors : QueryFailed(err)
    \/ QuerySucceeded
    \/ \E i \in 1..MaxDevices, r \in SecretResponses : SecretResponse(i, r)
    \/ \E i \in 1..MaxDevices, r \in GatewayResponses : GatewayResponse(i, r)
    \/ Aggregate

Spec == Init /\ [][Next]_vars

\* What the runtime guarantees to happen: the continuation after
\* Promise.allSettled runs once every promise is settled, and the AWS SDK
\* calls (DynamoDB query, getSecretValue) settle, by an answer or by the
\* SDK's own request timeout.  The https.request of sendAPNSNotification
\* sets no timeout and registers no 'timeout' handler: nothing makes the
\* gateway's answer arrive.
LiveSpec ==
    /\ Init /\ [][Next]_vars
    /\ WF_vars(Aggregate)
    /\ WF_vars(QuerySucceeded \/ \E err \in StoreErrors : QueryFailed(err))
    /\ WF_vars(\E i \in 1..MaxDevices, r \in SecretResponses : SecretResponse(i, r))

\* The handler with every kind of request arriving: the notifications of
\* Next, and the requests answered by the router or by handleDeviceRequest.
\* The table is written by this process's /device requests only.
HandlerNext ==
    \/ \E body \in EventBodies, now \in Timestamps : ReceiveNotification(body, now)
    \/ \E err \in StoreErrors : QueryFailed(err)
    \/ QuerySucceeded
    \/ \E i \in 1..MaxDevices, r \in SecretResponses : SecretResponse(i, r)
    \/ \E i \in 1..MaxDevices, r \in GatewayResponses : GatewayResponse(i, r)
    \/ Aggregate
    \/ \E req \in Requests : RejectRequest(req)
    \/ \E req \in Requests : DeviceRequest(req)
    \/ \E r \in {WriteOk, ValidationException} \cup WriteErrors : StoreWriteResponse(r)

HandlerSpec == Init /\ [][HandlerNext]_vars

(***************************************************************************)
(* The calls of one batch, statement by statement, with the clock running. *)
(***************************************************************************)
Tick ==
    /\ clock < MaxTicks * ClockStep
    /\ clock' = clock + ClockStep
    /\ UNCHANGED <<handlerVars, sideVars, uuidsIssued, calls>>

\* devices.map enters the next call, which reads
\* iat: Math.floor(Date.now() / 1000)
ReadIssuedAt(i) ==
    /\ i = Len(calls) + 1
    /\ MayStep(calls, variant, i)
    /\ calls' = Append(calls, [NoCall EXCEPT !.pc = "iat", !.iat = Seconds(clock)])
    /\ UNCHANGED <<handlerVars, sideVars, clock, uuidsIssued>>

\* exp: Math.floor(Date.now() / 1000) + 3600
ReadExpiry(i) ==
    /\ i \in DOMAIN calls
    /\ calls[i].pc = "iat"
    /\ MayStep(calls, variant, i)
    /\ calls' = [calls EXCEPT ![i].pc = "exp", ![i].exp = Seconds(clock) + 3600]
    /\ UNCHANGED <<handlerVars, sideVars, clock, uuidsIssued>>

\* jwt.sign
SignToken(i) ==
    /\ i \in DOMAIN calls
    /\ calls[i].pc = "exp"
    /\ MayStep(calls, variant, i)
    /\ calls' = [calls EXCEPT ![i].pc = "signed",
                              ![i].token = SignedJwt(variant, calls[i].iat,
                                                     calls[i].exp)]
    /\ UNCHANGED <<handlerVars, sideVars, clock, uuidsIssued>>

\* The options with 'apns-id': uuidv4(), then https.request, write, end.
SendRequest(i) ==
    /\ i \in DOMAIN calls
    /\ calls[i].pc = "signed"
    /\ MayStep(calls, variant, i)
    /\ calls' = [calls EXCEPT ![i].pc = "sent", ![i].apnsId = uuidv4(uuidsIssued)]
    /\ uuidsIssued' = uuidv4(uuidsIssued)
    /\ UNCHANGED <<handlerVars, sideVars, clock>>

\* The gateway's response ends: it carries a status and either the
\* request's apns-id, another one, or none.
ResponseEnds(i, statusCode, header) ==
    /\ i \in DOMAIN calls
    /\ calls[i].pc = "sent"
    /\ MayStep(calls, variant, i)
    /\ header \in {calls[i].apnsId, ForeignId, UndefinedHeader}
    /\ calls' = [calls EXCEPT ![i] = OnEnd(calls[i], statusCode, header)]
    /\ UNCHANGED <<handlerVars, sideVars, clock, uuidsIssued>>

CallNext ==
    \/ Tick
    \/ \E i \in 1..MaxDevices : ReadIssuedAt(i)
    \/ \E i \in 1..MaxDevices : ReadExpiry(i)
    \/ \E i \in 1..MaxDevices : SignToken(i)
    \/ \E i \in 1..MaxDevices : SendRequest(i)
    \/ \E i \in 1..MaxDevices, statusCode \in {200, 410},
          header \in (-1)..MaxDevices : ResponseEnds(i, statusCode, header)

CallSpec == Init /\ [][CallNext]_vars

(***************************************************************************)
(* One Promise.allSettled followed with the order in which its promises    *)
(* settle.  The process is warm (the key is cached), so every call issues  *)
(* its gateway request when the batch is dispatched; outcomes[i] is what   *)
(* the gateway answers to call i, and order lists the calls as they        *)
(* settle.                                                                 *)
(***************************************************************************)
OutcomeAssignments ==
    UNION { [1..n -> GatewayResponses] : n \in 1..MaxDevices }

BatchDevices(n) == getUserDevices({ <<"a@x.com", t>> : t \in 1..n }, "a@x.com")

\* devices.map(device => sendAPNSNotification(...))
DispatchBatch(outcomes) ==
    /\ batch = NoBatch \/ batch.summary # NoResponseYet
    /\ batch' = [outcomes |-> outcomes,
                 results |-> StartAll("FunctionURL", ValidKey, NoKey, FALSE,
                                      NoNotification, BatchDevices(Len(outcomes))),
                 order |-> <<>>,
                 summary |-> NoResponseYet]
    /\ UNCHANGED <<handlerVars, detailVars, replica>>

\* The gateway answers call i: its promise settles.
PromiseSettles(i) ==
    /\ i \in DOMAIN batch.results
    /\ batch.results[i].state = "inflight"
    /\ batch' = [batch EXCEPT
                   !.results = Settle(batch.results, i,
                       OnGatewayResponse([batch.results[i] EXCEPT
                                             !.resp = batch.outcomes[i]],
                                         batch.outcomes[i])),
                   !.order = Append(batch.order, i)]
    /\ UNCHANGED <<handlerVars, detailVars, replica>>

\* Promise.allSettled resolves: the two filters and the response.
Summarise ==
    /\ batch # NoBatch
    /\ batch.summary = NoResponseYet
    /\ AllSettled(batch.results)
    /\ batch' = [batch EXCEPT
                   !.summary = SummaryResponse(Successful(batch.results),
                                               Failed(batch.results))]
    /\ UNCHANGED <<handlerVars, detailVars, replica>>

SummaryNext ==
    \/ \E outcomes \in OutcomeAssignments : DispatchBatch(outcomes)
    \/ \E i \in 1..MaxDevices : PromiseSettles(i)
    \/ Summarise

SummarySpec == Init /\ [][SummaryNext]_vars

(***************************************************************************)
(* The table while other instances write it.  getUserDevices does not set  *)
(* ConsistentRead, so its query is an eventually consistent read: it is    *)
(* answered from a copy of the table that a completed write may not have   *)
(* reached yet.  replica is that copy; it differs from store in MaxLag      *)
(* items at most.  The decode reads nothing from the table, so a write     *)
(* that completes while the query is outstanding is taken to complete      *)
(* before the request; the copy is read by the query only, so writes that  *)
(* reach it while a batch is dispatched are taken to reach it when the     *)
(* batch has completed.  MaxLookups notifications are followed.            *)
(***************************************************************************)
\* The items in which the copy differs from table.
Lag(table) == Cardinality((table \ replica) \cup (replica \ table))

\* A register of another instance completes.
PutItem(e, t) ==
    /\ phase # "lookup"
    /\ <<e, t>> \notin store
    /\ Lag(store \cup {<<e, t>>}) <= MaxLag
    /\ store' = store \cup {<<e, t>>}
    /\ UNCHANGED <<config, attributes, request, apnsPrivateKeyCache, invocations,
                   phase, event, email, notification, lookup, devices, promises,
                   response>>
    /\ UNCHANGED <<detailVars, sideVars>>

\* An unregister of another instance completes.
DeleteItem(e, t) ==
    /\ phase # "lookup"
    /\ <<e, t>> \in store
    /\ Lag(store \ {<<e, t>>}) <= MaxLag
    /\ store' = store \ {<<e, t>>}
    /\ UNCHANGED <<config, attributes, request, apnsPrivateKeyCache, invocations,
                   phase, event, email, notification, lookup, devices, promises,
                   response>>
    /\ UNCHANGED <<detailVars, sideVars>>

\* The completed writes reach the copy that queries are answered from.
Propagate ==
    /\ phase # "dispatched"
    /\ replica # store
    /\ replica' = store
    /\ UNCHANGED <<handlerVars, detailVars, batch>>

\* The query is answered from the copy that lags behind.
QueryStale ==
    /\ replica # store
    /\ QueryAnswers(replica)

\* Well-formed push envelopes, one for each mailbox.
PushBodies(v) ==
    { [kind |-> "object",
       message |-> [present |-> TRUE,
                    data |-> [enc |-> IF v = "FunctionURL" THEN "b64" ELSE "plain",
                              text |-> t]],
       data |-> NoData] :
        t \in { x \in JsonTexts : x.emailAddress # Undefined \/ x.email # Undefined } }

\* The answers of the gateway that tell a registered device from one that
\* is gone.
TableGatewayResponses ==
    { r \in GatewayResponses : r.statusCode \in {200, 410} }

\* The answers of Secrets Manager: the key, or a failure.
TableSecretResponses ==
    { r \in SecretResponses : r.SecretString # MalformedKey }

TableNext ==
    \/ \E r \in Registrations : PutItem(r[1], r[2])
    \/ \E r \in Registrations : DeleteItem(r[1], r[2])
    \/ Propagate
    \/ \E body \in PushBodies(variant), now \in Timestamps :
          invocations < MaxLookups /\ ReceiveNotification(body, now)
    \/ \E err \in StoreErrors : QueryFailed(err)
    \/ QuerySucceeded
    \/ QueryStale
    \/ \E i \in 1..MaxDevices, r \in TableSecretResponses : SecretResponse(i, r)
    \/ \E i \in 1..MaxDevices, r \in TableGatewayResponses : GatewayResponse(i, r)
    \/ Aggregate

TableSpec == Init /\ [][TableNext]_vars

(***************************************************************************)
(* Properties.                                                             *)
(***************************************************************************)
\* The invocation went through the fan-out and has returned its summary.
Summarised ==
    phase = "done" /\ lookup.state = "ok" /\ Len(devices) >= 1

Pending(p) == p.state \in {"awaitSecret", "inflight"}

GotStatus200 ==
    { i \in DOMAIN promises : promises[i].resp.kind = "end"
                              /\ promises[i].resp.statusCode = 200 }

\* C1: whenever the lookup returned N >= 1 devices, the summary counts
\* succeeded (the devices whose gateway response was 200) and failed (all
\* other devices) with succeeded + failed = N, for any mix of outcomes.
C1_CountsAddUp ==
    Summarised =>
        LET N == Len(devices)
            succeeded == Cardinality(GotStatus200)
        IN /\ response.body.message =
                  <<"Notifications sent to ", ToString(succeeded), " devices">>
           /\ response.body.failed = N - succeeded
           /\ succeeded + response.body.failed = N

C1_Witness ==
    /\ Summarised
    /\ Len(devices) = 2
    /\ \E i, j \in DOMAIN promises :
          /\ promises[i].reason.kind = "KeyRetrievalFailed"
          /\ promises[j].resp.statusCode = 200
    /\ response.body.failed = 1

\* C2: within a batch every delivery is started, a step of one delivery
\* (its delay, failure or success) leaves every other delivery's promise
\* untouched, a settled delivery never changes, and a delivery's outcome is
\* decided by its own key, signing and gateway response alone.
OwnOutcome(p) ==
    IF p.resp.kind = "end" /\ p.resp.statusCode = 200 /\ p.key = ValidKey
    THEN "fulfilled" ELSE "rejected"

C2_EveryDeliveryStarted ==
    phase = "dispatched" =>
        /\ Len(promises) = Len(devices)
        /\ \A j \in DOMAIN promises :
              /\ promises[j].token = devices[j].deviceToken
              /\ Settled(promises[j]) => promises[j].state = OwnOutcome(promises[j])

C2_StepTouchesOneDelivery ==
    (phase = "dispatched" /\ phase' \in {"dispatched", "done"}) =>
        /\ DOMAIN promises' = DOMAIN promises
        /\ \A i, j \in DOMAIN promises :
              (i # j /\ promises'[i] # promises[i]) => promises'[j] = promises[j]
        /\ \A j \in DOMAIN promises :
              Settled(promises[j]) => promises'[j] = promises[j]

C2_Isolation ==
    []C2_EveryDeliveryStarted /\ [][C2_StepTouchesOneDelivery]_vars

C2_Witness ==
    /\ phase = "dispatched"
    /\ Len(promises) = 2
    /\ promises[1].state = "rejected"
    /\ promises[2].state = "inflight"
    /\ promises[2].requests = 1

\* C3: the summary response exists only once every delivery of the batch
\* has settled; while a delivery is pending the handler has not answered.
C3_ResponseAfterAllSettled ==
    /\ phase = "dispatched" => response = NoResponseYet
    /\ Summarised =>
          /\ Len(promises) = Len(devices)
          /\ \A i \in DOMAIN promises : ~Pending(promises[i])

C3_Witness ==
    /\ Summarised
    /\ Len(promises) = 2
    /\ promises[1].state = "rejected"
    /\ promises[2].state = "fulfilled"

\* C4: with N >= 1 devices the handler answers 200 with success:true and
\* only the number of failed deliveries, whatever that number is (0..N).
C4_FailuresOnlyCounted ==
    Summarised =>
        /\ response.statusCode = 200
        /\ DOMAIN response.body = {"success", "message", "failed"}
        /\ response.body.success = TRUE
        /\ response.body.failed =
              Cardinality({ i \in DOMAIN promises : promises[i].state = "rejected" })
        /\ response.body.failed \in 0..Len(devices)

C4_Witness ==
    /\ Summarised
    /\ Len(promises) = 2
    /\ \E i, j \in DOMAIN promises :
          /\ promises[i].resp.statusCode = 200
          /\ promises[j].resp.statusCode = 410
    /\ response.statusCode = 200
    /\ response.body.success = TRUE
    /\ response.body.failed = 1

\* C5: a lookup that returns no device is answered 200 {success:true,
\* message:'No devices to notify'} and no delivery is started: the fan-out
\* is entered only with at least one device.
C5_NoDevicesShortCircuit ==
    /\ (phase = "done" /\ lookup.state = "ok" /\ Len(devices) = 0) =>
          /\ response = [statusCode |-> 200,
                         body |-> [success |-> TRUE,
                                   message |-> <<"No devices to notify">>]]
          /\ promises = <<>>
    /\ phase = "dispatched" => Len(devices) >= 1

C5_Witness ==
    /\ phase = "done"
    /\ lookup.state = "ok"
    /\ email = "a@x.com"
    /\ Len(devices) = 0
    /\ response.statusCode = 200
    /\ \E t \in DeviceTokens : <<"b@x.com", t>> \in store

\* C6: a delivery is fulfilled iff its gateway response status is exactly
\* 200; any other status rejects with the status code and the body, a
\* transport error rejects with the transport error.
C6_Only200Delivers ==
    \A i \in DOMAIN promises :
        LET p == promises[i] IN
        /\ p.state = "fulfilled" => (p.resp.kind = "end" /\ p.resp.statusCode = 200)
        /\ p.resp.kind = "end" =>
              IF p.resp.statusCode = 200
              THEN p.state = "fulfilled"
              ELSE /\ p.state = "rejected"
                   /\ p.reason = [kind |-> "status", code |-> p.resp.statusCode,
                                  text |-> p.resp.data]
        /\ p.resp.kind = "error" =>
              /\ p.state = "rejected"
              /\ p.reason = [kind |-> "transport", code |-> 0, text |-> p.resp.data]

C6_Witness ==
    \E i, j \in DOMAIN promises :
        /\ promises[i].resp.statusCode = 204
        /\ promises[i].state = "rejected"
        /\ promises[j].resp.kind = "error"
        /\ promises[j].state = "rejected"

\* C7 as claimed: sendAPNSNotification never ends in a rejection.
C7_NeverRejects ==
    \A i \in DOMAIN promises : promises[i].state # "rejected"

\* C7, amended: every failure of sendAPNSNotification (key retrieval,
\* signing, non-200 status, transport error) rejects the call's own promise
\* with the Error of its cause, a fulfilled promise carries no failure, and
\* the rejection never reaches the catch block of handleGmailNotification.
C7_FailuresRejectOwnPromise ==
    /\ \A i \in DOMAIN promises :
          LET p == promises[i] IN
          /\ p.state = "fulfilled" => p.reason = NoReason
          /\ p.state = "rejected" =>
                p.reason.kind \in {"KeyRetrievalFailed", "SigningFailed",
                                   "status", "transport"}
          /\ (p.key # NoKey /\ p.key # ValidKey) =>
                (p.state = "rejected" /\ p.reason = SigningFailed /\ p.requests = 0)
          /\ (p.key = NoKey /\ p.state # "awaitSecret") =>
                (p.state = "rejected" /\ p.reason = KeyRetrievalFailed
                 /\ p.requests = 0)
          /\ (p.resp.kind = "error" \/ (p.resp.kind = "end" /\ p.resp.statusCode # 200))
                => p.state = "rejected"
    /\ (phase = "done" /\ promises # <<>>) => "error" \notin DOMAIN response.body

C7_Witness ==
    /\ Summarised
    /\ Len(promises) = 2
    /\ promises[1].reason = KeyRetrievalFailed
    /\ promises[2].reason = SigningFailed
    /\ response.statusCode = 200

\* C8: one outcome per device of the lookup and none for any other; at
\* most one gateway request per device, addressed to that device's token.
RequestsTo(t) ==
    Cardinality({ i \in DOMAIN promises :
                    promises[i].requests >= 1 /\ promises[i].path = t })

C8_OneOutcomePerDevice ==
    phase \in {"dispatched", "done"} =>
        /\ Len(promises) = (IF lookup.state = "ok" THEN Len(devices) ELSE 0)
        /\ \A i \in DOMAIN promises :
              /\ promises[i].token = devices[i].deviceToken
              /\ promises[i].requests <= 1
              /\ promises[i].requests = 1 => promises[i].path = devices[i].deviceToken
        /\ \A i, j \in DOMAIN devices :
              i # j => devices[i].deviceToken # devices[j].deviceToken
        /\ \A t \in DeviceTokens :
              RequestsTo(t) <= (IF \E i \in DOMAIN devices : devices[i].deviceToken = t
                                THEN 1 ELSE 0)
        /\ Summarised =>
              Cardinality({ i \in DOMAIN promises : Settled(promises[i]) })
                  = Len(devices)

C8_Witness ==
    /\ Summarised
    /\ Len(devices) = 2
    /\ RequestsTo(1) = 1
    /\ RequestsTo(2) = 1
    /\ <<email, 2>> \notin store

\* C9: a failed device lookup ends the invocation with a failure response
\* that carries the store's error text; no delivery is started.
C9_LookupFailureAborts ==
    lookup.state = "error" =>
        /\ phase = "done"
        /\ response.statusCode >= 400
        /\ "error" \in DOMAIN response.body
        /\ response.body.message = <<lookup.error>>
        /\ lookup.error \in StoreErrors
        /\ devices = <<>>
        /\ promises = <<>>

C9_Witness ==
    /\ lookup.state = "error"
    /\ phase = "done"
    /\ email = "a@x.com"
    /\ \A t \in DeviceTokens : <<"a@x.com", t>> \in store
    /\ promises = <<>>

\* The input errors of an envelope, read off the event itself.
InvalidEnvelopeShape(body) ==
    body.kind = "object" /\ ~body.message.present /\ body.data.enc = "absent"

PayloadOf(body) == IF body.message.present THEN body.message.data ELSE body.data

MalformedPayload(v, body) ==
    /\ body.kind = "object"
    /\ ~InvalidEnvelopeShape(body)
    /\ LET d == PayloadOf(body) IN
          \/ d.enc = "absent"
          \/ ~d.text.json
          \/ ~DecodedData(v, d).json

Answered == phase = "done" /\ invocations >= 1

C12_NonBase64AlwaysFails ==
    (/\ invocations >= 1
     /\ event.kind = "object"
     /\ ~InvalidEnvelopeShape(event)
     /\ (PayloadOf(event).enc # "b64" \/ ~PayloadOf(event).text.json)) =>
        /\ phase = "done"
        /\ response.statusCode = 500
        /\ response.body.message[1] = "Failed to parse Gmail message: "
        /\ notification = NoNotification
        /\ lookup.state = "none"

\* C13 as claimed: a payload with neither emailAddress nor email is a hard
\* failure; no device lookup is made with an undefined identity and the
\* answer is never 'No devices to notify'.
NoIdentity(body) ==
    /\ body.kind = "object"
    /\ ~InvalidEnvelopeShape(body)
    /\ PayloadOf(body).text.json
    /\ PayloadOf(body).text.emailAddress = Undefined
    /\ PayloadOf(body).text.email = Undefined

C13_UndefinedIdentityIsHardFailure ==
    (invocations >= 1 /\ NoIdentity(event)) =>
        /\ lookup.state = "none"
        /\ phase = "done"
        /\ "error" \in DOMAIN response.body

\* C14: the push-wrapper envelope {message:{data}} and the direct envelope
\* {data} with the same data decode to the same identity and the same
\* notification (title, body, badge, sound, category and extras), read at
\* the same clock reading.
OtherShape(body) ==
    IF body.message.present
    THEN [kind |-> "object", message |-> NoMessage, data |-> body.message.data]
    ELSE [kind |-> "object", message |-> [present |-> TRUE, data |-> body.data],
          data |-> NoData]

C14_ShapeInvariance ==
    (invocations >= 1 /\ lookup.state # "none") =>
        LET other == Decode(variant, OtherShape(event),
                            notification.gmailData.timestamp)
        IN /\ other.ok
           /\ other.email = email
           /\ other.notification = notification
           /\ PayloadOf(OtherShape(event)) = PayloadOf(event)
           /\ OtherShape(event).message.present # event.message.present

C14_Witness ==
    /\ lookup.state = "ok"
    /\ ~event.message.present
    /\ event.data.enc = "b64"
    /\ email = "b@x.com"
    /\ notification.gmailData.historyId = "9"
    /\ notification.alert.title = "New Gmail Message"

\* C15: every request body is the fixed template with gmail.email the
\* decoded identity and gmail.historyId the decoded change marker as it came
\* in; nothing else of the event enters it and all requests of a batch carry
\* the same body.
IdentityOf(text) ==
    IF text.emailAddress # Undefined THEN text.emailAddress ELSE text.email

C15_TemplatedBody ==
    \A i \in DOMAIN promises :
        promises[i].requests >= 1 =>
            /\ promises[i].body.aps =
                  [alert |-> [title |-> "New Gmail Message",
                              body |-> "You have a new email in your inbox"],
                   badge |-> 1, sound |-> "default",
                   category |-> "GMAIL_NOTIFICATION"]
            /\ DOMAIN promises[i].body = {"aps", "gmail"}
            /\ promises[i].body.gmail.email = IdentityOf(PayloadOf(event).text)
            /\ promises[i].body.gmail.historyId = PayloadOf(event).text.historyId
            /\ promises[i].body.gmail.timestamp \in Timestamps
            /\ \A j \in DOMAIN promises :
                  promises[j].requests >= 1 => promises[j].body = promises[i].body

C15_Witness ==
    /\ Len(promises) = 2
    /\ promises[1].requests = 1
    /\ promises[2].requests = 1
    /\ promises[1].body.gmail.email = "a@x.com"
    /\ promises[2].body.gmail.historyId = "9"
    /\ event.message.present

\* C16: a failed key retrieval leaves the cache as it was and rejects the
\* call with 'Unable to retrieve APNS private key'; while the cache is empty
\* every dispatched call asks the provider again; the cache becomes
\* non-empty only in the step of a successful retrieval, with that
\* retrieval's key.
C16_FailedRetrievalStep ==
    \A i \in DOMAIN promises :
        (/\ promises[i].secret = "pending"
         /\ i \in DOMAIN promises'
         /\ promises'[i].secret = "failed") =>
            /\ apnsPrivateKeyCache' = apnsPrivateKeyCache
            /\ promises'[i].state = "rejected"
            /\ promises'[i].reason = KeyRetrievalFailed
            /\ promises'[i].reason.text = "Unable to retrieve APNS private key"
            /\ promises'[i].requests = 0

C16_EmptyCacheRetries ==
    (/\ variant = "FunctionURL"
     /\ phase = "lookup" /\ phase' = "dispatched"
     /\ apnsPrivateKeyCache = NoKey) =>
        \A i \in DOMAIN promises' :
            /\ promises'[i].secret = "pending"
            /\ promises'[i].state = "awaitSecret"

C16_FirstSuccessPopulates ==
    (apnsPrivateKeyCache = NoKey /\ apnsPrivateKeyCache' # NoKey) =>
        \E i \in DOMAIN promises :
            /\ promises[i].secret = "pending"
            /\ promises'[i].secret = "ok"
            /\ promises'[i].key = apnsPrivateKeyCache'

C16_FailureNeverPopulates ==
    /\ [](apnsPrivateKeyCache = NoKey =>
              \A i \in DOMAIN promises : promises[i].secret # "ok")
    /\ [][C16_FailedRetrievalStep]_vars
    /\ [][C16_EmptyCacheRetries]_vars
    /\ [][C16_FirstSuccessPopulates]_vars

C16_Witness ==
    /\ invocations = 2
    /\ Len(promises) = 2
    /\ promises[1].secret = "failed"
    /\ promises[1].reason = KeyRetrievalFailed
    /\ promises[2].secret = "ok"
    /\ apnsPrivateKeyCache = promises[2].key
    /\ apnsPrivateKeyCache # NoKey

\* C17: a call that starts when the cache is populated uses the cached key
\* without asking the provider, in every later delivery and invocation, and
\* a populated cache never becomes empty again.
C17_HitAtDispatch ==
    (/\ variant = "FunctionURL"
     /\ phase = "lookup" /\ phase' = "dispatched"
     /\ apnsPrivateKeyCache # NoKey) =>
        /\ apnsPrivateKeyCache' = apnsPrivateKeyCache
        /\ \A i \in DOMAIN promises' :
              /\ promises'[i].secret = "none"
              /\ promises'[i].state # "awaitSecret"
              /\ promises'[i].key = apnsPrivateKeyCache

C17_CachedKeyReused ==
    /\ [][C17_HitAtDispatch]_vars
    /\ [][apnsPrivateKeyCache # NoKey => apnsPrivateKeyCache' # NoKey]_vars
    /\ []((variant = "FunctionURL" /\ phase \in {"dispatched", "done"}) =>
             \A i \in DOMAIN promises :
                 promises[i].secret = "none" =>
                     promises[i].key = apnsPrivateKeyCache)

C17_Witness ==
    /\ variant = "FunctionURL"
    /\ invocations = 2
    /\ Len(promises) = 2
    /\ \A i \in DOMAIN promises :
          /\ promises[i].secret = "none"
          /\ promises[i].key = apnsPrivateKeyCache
          /\ promises[i].requests = 1
    /\ apnsPrivateKeyCache = ValidKey

\* C18 as claimed: once the cache is non-empty no step writes it again or
\* changes its value.
C18_PopulatedAtMostOnce ==
    [][apnsPrivateKeyCache # NoKey =>
           apnsPrivateKeyCache' = apnsPrivateKeyCache]_vars

\* C19: when key retrieval fails for every device of a batch of N, the
\* summary counts 0 delivered and N failed, no gateway request was issued,
\* and the cache is left empty, so that the next batch asks the provider
\* again.
AllRetrievalsFailed ==
    /\ Summarised
    /\ \A i \in DOMAIN promises : promises[i].secret = "failed"

C19_NothingSentNothingCached ==
    AllRetrievalsFailed =>
        /\ Len(promises) = Len(devices)
        /\ response = [statusCode |-> 200,
                       body |-> [success |-> TRUE,
                                 message |-> <<"Notifications sent to ", "0",
                                               " devices">>,
                                 failed |-> Len(devices)]]
        /\ \A i \in DOMAIN promises :
              /\ promises[i].requests = 0
              /\ promises[i].resp = NoResponse
              /\ promises[i].key = NoKey
              /\ promises[i].state = "rejected"
              /\ promises[i].reason = KeyRetrievalFailed
        /\ apnsPrivateKeyCache = NoKey

C19_NextBatchRetrievesAfresh ==
    (AllRetrievalsFailed /\ phase' # "done") =>
        /\ apnsPrivateKeyCache' = NoKey
        /\ promises' = <<>>

C19_AllRetrievalsFail ==
    /\ []C19_NothingSentNothingCached
    /\ [][C19_NextBatchRetrievesAfresh]_vars

C19_Witness ==
    /\ AllRetrievalsFailed
    /\ Len(devices) = 2
    /\ response.body.failed = 2
    /\ apnsPrivateKeyCache = NoKey

\* C20: a call whose signing fails is rejected with the signing error and
\* issues no gateway request; the batch still has one call per device, each
\* settled by its own outcome, and is answered with the summary.
SigningAttempted(p) ==
    /\ p.state # "awaitSecret"
    /\ p.secret \in {"none", "ok"}

C20_SigningFailureIsLocal ==
    phase \in {"dispatched", "done"} =>
        /\ \A i \in DOMAIN promises :
              /\ (SigningAttempted(promises[i]) /\ promises[i].key # ValidKey) =>
                    /\ promises[i].state = "rejected"
                    /\ promises[i].reason = SigningFailed
                    /\ promises[i].requests = 0
                    /\ promises[i].resp = NoResponse
              /\ promises[i].reason = SigningFailed =>
                    SigningAttempted(promises[i]) /\ promises[i].key # ValidKey
              /\ Settled(promises[i]) =>
                    promises[i].state = OwnOutcome(promises[i])
        /\ lookup.state = "ok" => Len(promises) = Len(devices)
        /\ (Summarised /\ \E i \in DOMAIN promises :
                              promises[i].reason = SigningFailed) =>
              /\ response.statusCode = 200
              /\ response.body.failed >= 1
              /\ response.body.failed = Failed(promises)

C20_Witness ==
    /\ Summarised
    /\ Len(promises) = 2
    /\ promises[1].reason = SigningFailed
    /\ promises[1].requests = 0
    /\ promises[2].state = "fulfilled"
    /\ promises[2].requests = 1
    /\ response.body.failed = 1

\* C21: every gateway request carries the token that its own delivery call
\* signed, each call signs at most once and only to send, no two requests
\* carry the same token, and a batch with K requests has made K signings.
Requesting == { i \in DOMAIN promises : promises[i].requests >= 1 }

Signing == { i \in DOMAIN promises : promises[i].signings >= 1 }

C21_FreshTokenPerCall ==
    /\ \A i \in DOMAIN promises :
          /\ promises[i].signings <= 1
          /\ promises[i].requests = promises[i].signings
          /\ promises[i].requests >= 1 =>
                /\ promises[i].authorization =
                      [signedBy |-> promises[i].token, key |-> promises[i].key]
                /\ promises[i].authorization # NoToken
                /\ SigningAttempted(promises[i])
    /\ \A i, j \in Requesting :
          i # j => promises[i].authorization # promises[j].authorization
    /\ Cardinality(Requesting) = Cardinality(Signing)

C21_Witness ==
    /\ Len(promises) = 2
    /\ Requesting = {1, 2}
    /\ Signing = {1, 2}
    /\ promises[1].authorization.signedBy = 1
    /\ promises[2].authorization.signedBy = 2

\* C24 as claimed: with ENVIRONMENT = 'prod' every request of a batch goes to
\* api.push.apple.com, otherwise to api.sandbox.push.apple.com, and all
\* requests of a batch go to the same host.
C24_HostByEnvironment ==
    \A i \in Requesting :
        /\ promises[i].host =
              (IF environment = "prod" THEN "api.push.apple.com"
               ELSE "api.sandbox.push.apple.com")
        /\ \A j \in Requesting : promises[j].host = promises[i].host

\* C30: within an invocation the device lookup starts only after decoding
\* succeeded, deliveries (key retrieval, signing, request) start only after
\* the lookup returned at least one device, and the summary comes last:
\* the handler moves decode -> lookup -> dispatch -> aggregation only.
DecodeSucceeded ==
    /\ event.kind = "object"
    /\ ~InvalidEnvelopeShape(event)
    /\ ~MalformedPayload(variant, event)
    /\ notification # NoNotification

PhaseOrder ==
    { <<"idle", "lookup">>, <<"idle", "done">>, <<"done", "lookup">>,
      <<"returned", "lookup">>, <<"returned", "done">>,
      <<"lookup", "dispatched">>, <<"lookup", "done">>,
      <<"dispatched", "done">>,
      <<"idle", "returned">>, <<"done", "returned">>, <<"idle", "write">>,
      <<"done", "write">>, <<"returned", "write">>, <<"write", "returned">> }

C30_StateOrder ==
    /\ lookup.state # "none" => DecodeSucceeded
    /\ phase = "lookup" =>
          lookup.state = "pending" /\ devices = <<>> /\ promises = <<>>
    /\ promises # <<>> =>
          /\ lookup.state = "ok"
          /\ Len(devices) >= 1
          /\ phase \in {"dispatched", "done"}
    /\ phase = "dispatched" => promises # <<>> /\ response = NoResponseYet
    /\ (phase = "done" /\ promises # <<>>) => AllSettled(promises)

C30_StepOrder ==
    /\ phase' # phase => <<phase, phase'>> \in PhaseOrder
    /\ (phase = "lookup" /\ phase' = "lookup") => lookup' = lookup
    /\ (promises = <<>> /\ promises' # <<>>) =>
          phase = "lookup" /\ phase' = "dispatched"

C30_StrictOrder ==
    /\ []C30_StateOrder
    /\ [][C30_StepOrder]_vars

C30_Witness ==
    /\ phase = "done"
    /\ DecodeSucceeded
    /\ lookup.state = "ok"
    /\ Len(promises) = 2
    /\ \A i \in DOMAIN promises : promises[i].requests = 1
    /\ response.statusCode = 200

\* C25 as claimed: every batch that was dispatched eventually completes
\* with its summary, every issued delivery call settling by a gateway
\* response or by its own timeout.
C25_BatchCompletes == (phase = "dispatched") ~> (phase = "done")

\* C26 as claimed: a request whose path is /device goes to the device
\* handler, a POST to /gmail-notification goes to the notification handler,
\* and every other request is answered 400 "Invalid request format" with
\* no store access, no key retrieval and no gateway request.
NotificationRequest(req) ==
    req.method = "POST" /\ req.path = "/gmail-notification"

DeviceResponses ==
    { InternalError(SyntaxErrorText), FieldsRequiredResponse,
      EndpointNotFoundResponse, NoResponseYet }
    \cup { ResultResponse(m) :
             m \in {"Device registered successfully",
                    "Device unregistered successfully",
                    "Device already registered"} }
    \cup { InternalError(r.message) : r \in WriteErrors \cup {ValidationException} }

C26_RoutedByMethodAndPath ==
    phase \in {"write", "returned"} =>
        /\ request.path = "/device" => response \in DeviceResponses
        /\ (request.path # "/device" /\ ~NotificationRequest(request)) =>
              /\ response = InvalidRequestResponse
              /\ lookup = NoLookup
              /\ promises = <<>>
        /\ ~NotificationRequest(request)

\* C27 as claimed: a /device request whose body lacks email or
\* deviceToken (missing or empty) is answered 400 "Email and deviceToken
\* are required", whatever the method.
C27_MissingFieldIs400 ==
    (/\ phase = "returned"
     /\ request.path = "/device"
     /\ request.body.kind = "object"
     /\ FieldMissing(request.body))
        => response = FieldsRequiredResponse

\* C28 as claimed: unless the store fails, a POST to /device with both
\* fields is answered 200 "Device registered successfully" with the pair
\* in the table, and a DELETE is answered 200 "Device unregistered
\* successfully" with the pair not in the table.
StoreFailureResponses == { InternalError(r.message) : r \in WriteErrors }

C28_RegisterAndUnregister ==
    (/\ phase = "returned"
     /\ request.path = "/device"
     /\ request.body.kind = "object"
     /\ ~FieldMissing(request.body)
     /\ request.method \in {"POST", "DELETE"}
     /\ response \notin StoreFailureResponses)
        => LET key == <<request.body.email, request.body.deviceToken>> IN
           IF request.method = "POST"
           THEN /\ response = ResultResponse("Device registered successfully")
                /\ key \in store
           ELSE /\ response = ResultResponse("Device unregistered successfully")
                /\ key \notin store

\* C29: a failure while handling a /device request, an unparseable body or
\* a failed store write, is answered 500 with error "Internal server
\* error" and the failure's text as message, and never leaves the handler
\* as an exception; a failed write leaves the table as it was.
C29_ParseFailureIs500 ==
    (/\ phase = "returned"
     /\ Route(variant, request) = "device"
     /\ request.body.kind # "object")
        => response = InternalError(SyntaxErrorText)

C29_WriteFailureIs500 ==
    (phase = "write" /\ phase' = "returned" /\ response'.statusCode # 200) =>
        /\ response'.statusCode = 500
        /\ response'.body.error = "Internal server error"
        /\ response'.body.message \in
              { r.message : r \in WriteErrors \cup {ValidationException} }
        /\ store' = store

Signed == { i \in DOMAIN calls : calls[i].token # NoJwt }

C22_TokenClaims ==
    \A i \in Signed :
        /\ calls[i].token.iss = APNS_TEAM_ID
        /\ calls[i].token.kid = APNS_KEY_ID
        /\ calls[i].token.aud = "apns"
        /\ calls[i].token.exp = calls[i].token.iat + 3600

\* C23 as claimed: no two gateway requests share a correlation identifier,
\* and a Delivered outcome reports the identifier that was attached to the
\* request it answers.
Sent == { i \in DOMAIN calls : calls[i].pc \in {"sent", "resolved", "rejected"} }

UniqueIds ==
    \A i, j \in Sent : i # j => calls[i].apnsId # calls[j].apnsId

C23_DeliveredReportsRequestId ==
    /\ UniqueIds
    /\ \A i \in Sent :
          calls[i].pc = "resolved" => calls[i].result.apnsId = calls[i].apnsId

\* C23, amended: no two gateway requests share a correlation identifier,
\* and a Delivered outcome reports the apns-id header of the response to
\* its request, which is the request's own identifier exactly when the
\* gateway sent that identifier back.
C23_DeliveredReportsResponseHeader ==
    /\ UniqueIds
    /\ \A i \in Sent :
          /\ calls[i].apnsId \in 1..uuidsIssued
          /\ calls[i].pc = "resolved" =>
                /\ calls[i].statusCode = 200
                /\ calls[i].result.success
                /\ calls[i].result.apnsId = calls[i].header
                /\ (calls[i].result.apnsId = calls[i].apnsId) <=>
                      (calls[i].header = calls[i].apnsId)
          /\ calls[i].pc = "rejected" => calls[i].result = NoResult

C23_Witness ==
    /\ Cardinality(Sent) >= 2
    /\ \E i, j \in Sent :
          /\ i # j
          /\ calls[i].pc = "resolved"
          /\ calls[i].header = ForeignId
          /\ calls[j].pc = "resolved"
          /\ calls[j].header = calls[j].apnsId

(***************************************************************************)
(* The fan-out: devices.map(...) inside Promise.allSettled(...).           *)
(***************************************************************************)
\* A call has begun once its first I/O is issued (the getSecretValue or the
\* gateway request) or signing has already failed it.
Begun(p) ==
    \/ p.secret # "none"
    \/ p.requests >= 1
    \/ p.state = "rejected"

\* A call has got an answer once Secrets Manager or the gateway answered it.
GotAnswer(p) ==
    \/ p.secret \in {"ok", "failed"}
    \/ p.resp # NoResponse

\* C32: the coordinator starts all N per-device calls in the step that
\* dispatches the batch, before any of them has got an answer, and applies
\* no cap: in every state of a dispatched batch each of the N calls has
\* begun, whatever the state of the others.
C32_AllBegunInDispatchStep ==
    (phase = "lookup" /\ phase' = "dispatched") =>
        /\ Len(promises') = Len(devices')
        /\ Len(promises') >= 1
        /\ \A i \in DOMAIN promises' :
              /\ Begun(promises'[i])
              /\ ~GotAnswer(promises'[i])

C32_NoneWaitsForAnother ==
    phase = "dispatched" =>
        \A i \in DOMAIN devices :
            /\ i \in DOMAIN promises
            /\ Begun(promises[i])

C32_NoConcurrencyCap ==
    []C32_NoneWaitsForAnother /\ [][C32_AllBegunInDispatchStep]_vars

\* A batch of MaxDevices devices with every gateway request outstanding at
\* the same time, none answered.
C32_Witness ==
    /\ phase = "dispatched"
    /\ variant = "FunctionURL"
    /\ Len(promises) = MaxDevices
    /\ \A i \in DOMAIN promises :
          /\ promises[i].state = "inflight"
          /\ promises[i].requests = 1
          /\ promises[i].resp = NoResponse

(***************************************************************************)
(* exports.handler as a whole.                                             *)
(***************************************************************************)
HandlerFree == phase \in {"idle", "done", "returned"}

StatusCodes == {200, 400, 404, 500}

\* The handler takes up the event req.
Accepts(req) ==
    \/ RejectRequest(req)
    \/ DeviceRequest(req)
    \/ /\ Route(variant, req) = "notification"
       /\ \E body \in EventBodies, now \in Timestamps :
             ReceiveNotification(body, now)

\* C34: the top-level handler is total.  Every event, whatever its routing
\* fields and its body, is taken up by the router; every answer, of the
\* router, the device handler or the notification handler, is a response
\* whose status code is 200, 400, 404 or 500, and no error leaves the
\* handler.
C34_EveryEventTakenUp ==
    (HandlerFree /\ invocations < MaxInvocations) =>
        \A req \in Requests :
            /\ Route(variant, req) \in {"throw", "invalid", "device", "notification"}
            /\ ENABLED Accepts(req)

C34_EveryAnswerIsAResponse ==
    (phase \in {"done", "returned"}) =>
        /\ response # NoResponseYet
        /\ response.statusCode \in StatusCodes
        /\ "thrown" \notin DOMAIN response.body

C34_HandlerIsTotal ==
    /\ C34_EveryEventTakenUp
    /\ C34_EveryAnswerIsAResponse

\* An event without routing information where the variant looks for it,
\* answered by the router's catch block, after an earlier invocation.
C34_Witness ==
    /\ phase = "returned"
    /\ invocations = 2
    /\ request.form # FormRead(variant)
    /\ Route(variant, request) = "throw"
    /\ response.statusCode = 500

\* C37 as claimed: register and unregister are idempotent on the key
\* (email, deviceToken).  Unless the store fails, a register is answered
\* 200 and leaves the pair in the table once, whether or not it was there
\* before, and an unregister is answered 200 and leaves the pair out of
\* the table, which is the table as it was when the pair was not there.
C37_WriteIsIdempotent ==
    (/\ phase = "write"
     /\ phase' = "returned"
     /\ response' \notin StoreFailureResponses)
        => LET key == <<request.body.email, request.body.deviceToken>> IN
           /\ response'.statusCode = 200
           /\ response'.body.success
           /\ WriteOf(request) = "put" => store' = store \cup {key}
           /\ WriteOf(request) = "delete" => store' = store \ {key}

C37_IdempotentOnKey == [][C37_WriteIsIdempotent]_vars

\* C38: on /device the body is looked at before the method.  A request
\* with a method other than POST and DELETE is answered 500 when its body
\* does not parse, 400 when a field is missing and 404 "Endpoint not
\* found" when both fields are there, and it issues no write: the table
\* stays as it is.
OtherMethod(req) ==
    Route(variant, req) = "device" /\ req.method \notin {"POST", "DELETE"}

C38_AnswerByBody ==
    ((phase \in {"write", "returned"}) /\ OtherMethod(request)) =>
        /\ phase = "returned"
        /\ response =
              IF request.body.kind # "object" THEN InternalError(SyntaxErrorText)
              ELSE IF FieldMissing(request.body) THEN FieldsRequiredResponse
              ELSE EndpointNotFoundResponse

C38_NoWrite ==
    (invocations' # invocations /\ OtherMethod(request')) => store' = store

C38_BodyBeforeMethod == []C38_AnswerByBody /\ [][C38_NoWrite]_vars

\* A GET with a body that lacks a field, answered 400 and not 404, with a
\* registration in the table.
C38_Witness ==
    /\ phase = "returned"
    /\ OtherMethod(request)
    /\ request.body.kind = "object"
    /\ FieldMissing(request.body)
    /\ response = FieldsRequiredResponse
    /\ store # {}

(***************************************************************************)
(* The table during a notification.                                        *)
(***************************************************************************)
\* The step enters handleGmailNotification or is a step of it.
NotificationStep == request'.path = "/gmail-notification"

\* C33: handling a Gmail notification only reads the registration store.
\* No step of handleGmailNotification, whatever its outcome, changes the
\* set of registrations or the registeredAt and lastActive of any of them.
C33_TableUntouched ==
    NotificationStep => (store' = store /\ attributes' = attributes)

C33_OnlyReads == [][C33_TableUntouched]_vars

\* A notification answered after the gateway reported a device as gone:
\* the device is still registered, with the attributes of its registration
\* in an earlier request.
C33_Witness ==
    /\ phase = "done"
    /\ request.path = "/gmail-notification"
    /\ \E i \in DOMAIN promises :
          /\ promises[i].resp.statusCode = 410
          /\ <<email, promises[i].token>> \in store
          /\ <<email, promises[i].token>> \in DOMAIN attributes
          /\ attributes[<<email, promises[i].token>>].lastActive < invocations

(***************************************************************************)
(* The summary as a fold over the outcomes.                                *)
(***************************************************************************)
\* The calls the gateway answers with status 200.
DeliveredBy(outcomes) ==
    { i \in DOMAIN outcomes :
        outcomes[i].kind = "end" /\ outcomes[i].statusCode = 200 }

\* C31: the summary is order-independent.  For an assignment of outcomes
\* to the devices of a batch, the counts and the response body are a
\* function of the assignment alone: in whatever order the deliveries
\* settle, succeeded is the number of devices assigned a 200, failed is
\* the number of the others, and each result is the one of its own device.
C31_SummaryByAssignment ==
    batch.summary # NoResponseYet =>
        LET n == Cardinality(DeliveredBy(batch.outcomes)) IN
        /\ batch.summary =
              SummaryResponse(n, Len(batch.outcomes) - n)
        /\ \A i \in DOMAIN batch.outcomes :
              batch.results[i].state =
                  (IF i \in DeliveredBy(batch.outcomes)
                   THEN "fulfilled" ELSE "rejected")

\* A batch whose second delivery settled first, as a failure, and whose
\* first delivery then succeeded.
C31_Witness ==
    /\ batch.summary = SummaryResponse(1, 1)
    /\ batch.order = <<2, 1>>
    /\ batch.outcomes[2].statusCode = 410
    /\ batch.outcomes[1].statusCode = 200

(***************************************************************************)
(* Registrations and the batch that reads them.                            *)
(***************************************************************************)
\* The step in which the query is answered with items.
LookupAnswered ==
    phase = "lookup" /\ phase' \in {"dispatched", "done"} /\ lookup'.state = "ok"

Attempted(ps) == { ps[i].token : i \in DOMAIN ps }

\* C35 as claimed: registration is visible to later notifications and
\* unregistration is final.  A lookup that starts when (e, d) is
\* registered, the last write of the pair being a completed register, is
\* followed by a delivery to d, and one that starts when (e, d) is not
\* registered, the last write being a completed unregister or none, is
\* followed by no delivery to d.
C35_LookupFindsTable ==
    LookupAnswered =>
        \A t \in DeviceTokens :
            (<<email, t>> \in store) <=> (t \in Attempted(promises'))

C35_VisibleAndFinal == [][C35_LookupFindsTable]_vars

\* C36: the device set of a batch is a snapshot taken when the lookup is
\* answered.  While the batch is dispatched its devices and the device of
\* each delivery stay as they are, whatever is written to the table; a
\* delivery that gets its key issues its request whether or not its device
\* is still registered; and the summary counts the deliveries of the
\* snapshot, all of them.
TokensOf(ps) == [i \in DOMAIN ps |-> ps[i].token]

C36_SnapshotKept ==
    phase = "dispatched" =>
        /\ devices' = devices
        /\ TokensOf(promises') = TokensOf(promises)
        /\ TokensOf(promises) = [i \in DOMAIN devices |-> devices[i].deviceToken]
        /\ store' # store =>
              (promises' = promises /\ phase' = phase /\ response' = response)

C36_StillSent ==
    phase = "dispatched" =>
        \A i \in DOMAIN promises :
            (/\ promises[i].state = "awaitSecret"
             /\ promises'[i] # promises[i]
             /\ promises'[i].secret = "ok"
             /\ promises'[i].key = ValidKey)
                => /\ promises'[i].state = "inflight"
                   /\ promises'[i].requests = 1
                   /\ promises'[i].path = devices[i].deviceToken

C36_StillCounted ==
    (phase = "dispatched" /\ phase' = "done") =>
        LET k == Cardinality({ i \in DOMAIN devices :
                                 promises[i].state = "fulfilled" })
        IN response' = SummaryResponse(k, Len(devices) - k)

C36_BatchIsASnapshot ==
    [][C36_SnapshotKept /\ C36_StillSent /\ C36_StillCounted]_vars

\* A dispatched batch with a delivery that has not issued its request yet
\* and whose device is registered no more: the query found it in the table
\* and the unregister completed since.
C36_Witness ==
    /\ phase = "dispatched"
    /\ \E i \in DOMAIN promises :
          /\ promises[i].state = "awaitSecret"
          /\ promises[i].requests = 0
          /\ <<email, promises[i].token>> \notin store
          /\ <<email, promises[i].token>> \notin replica

\* C39: notifications are confined to the subscriber they are for.  The
\* devices of a batch are registrations of the event's identity, found in
\* the table or in the copy the query read; every gateway request of the
\* batch goes to one of them; and the devices found are a function of that
\* identity's registrations alone, so that nothing registered, added or
\* removed under another identity changes the batch or its response.
OwnTokens(table) == { t \in DeviceTokens : <<email, t>> \in table }

C39_OwnDevicesFound ==
    LookupAnswered =>
        /\ \A i \in DOMAIN devices' : devices'[i].email = email
        /\ Attempted(promises') \in {OwnTokens(store), OwnTokens(replica)}
        /\ { devices'[i].deviceToken : i \in DOMAIN devices' } = Attempted(promises')

C39_RequestsToOwnDevices ==
    phase \in {"dispatched", "done"} =>
        \A i \in DOMAIN promises :
            promises[i].requests >= 1 =>
                /\ promises[i].path = promises[i].token
                /\ \E j \in DOMAIN devices :
                      /\ devices[j].deviceToken = promises[i].path
                      /\ devices[j].email = email

C39_WritesLeaveBatch ==
    (store' # store \/ replica' # replica) =>
        UNCHANGED <<phase, email, devices, promises, response>>

C39_Confined ==
    /\ []C39_RequestsToOwnDevices
    /\ [][C39_OwnDevicesFound /\ C39_WritesLeaveBatch]_vars

\* A batch for the first mailbox while device 1 is registered under the
\* second mailbox and not under the first: its one request goes to device 2.
C39_Witness ==
    /\ phase = "dispatched"
    /\ email = "a@x.com"
    /\ <<"b@x.com", 1>> \in store \cap replica
    /\ <<"a@x.com", 1>> \notin store \cup replica
    /\ Len(promises) = 1
    /\ promises[1].requests = 1
    /\ promises[1].path = 2

====
